---- MODULE Spec2Model ----
(***************************************************************************)
(* A model of renpydux (reducer builder, reducer, store, combineReducers)  *)
(* and of sebulvents (dispatchers, signals, computed signals, effects).    *)
(*                                                                         *)
(* Every call of the library is synchronous and runs to completion, so one *)
(* action of the model is one top-level call together with everything it   *)
(* triggers.  The body of a call is an operator from a graph record `g'    *)
(* to the graph record after the call; a raised exception is the field     *)
(* g.exc, and every step after a raise is skipped unless the code catches. *)
(***************************************************************************)
EXTENDS Integers, Sequences, FiniteSets, TLC

\* ------------------------------------------------------------- bounds
\* Concrete signal values are 0..MaxVal.
MaxVal == 2
\* Nested raiseFlag calls the interpreter's stack has room for.
RecursionLimit == 6
\* A character's hp is 0..MaxHp.
MaxHp == 2
\* Registrations a builder callback gets accepted.
MaxRegs == 3
\* Times a client subscribes one handler to the dispatcher it holds.
MaxSubscribes == 2

\* -------------------------------------------------- the reactive graph
\* Python's None as a cached value.
None == -1
\* The argument SignalSymbols.DEFAULT of set().
DEFAULT == [callable |-> FALSE, x |-> -2]
NoneRaw == [callable |-> FALSE, x |-> None]

Signals   == {1, 2}
Computeds == {3, 4}
Effects   == {5}
Nodes     == Signals \cup Computeds \cup Effects
Readable  == Signals \cup Computeds
NumNodes  == Cardinality(Nodes)

\* The functions handed to the library as factories and effect bodies.  Each
\* entry is one function object: it reads the nodes r in order.
\*   sum   : returns the sum of what it read (mod MaxVal + 1)
\*   cond  : reads r[1]; returns r[2]'s value if that was 1, else r[3]'s
\*   raise : reads r, then raises an error that is no SignalException
Programs == <<
  [kind |-> "sum",   r |-> <<1>>],
  [kind |-> "sum",   r |-> <<1, 3>>],
  [kind |-> "sum",   r |-> <<3>>],
  [kind |-> "sum",   r |-> <<4>>],
  [kind |-> "cond",  r |-> <<1, 4, 2>>],
  [kind |-> "raise", r |-> <<1>>] >>
\* The client programs: the factories of computed signals 3 and 4 and the
\* callback of effect 5.
Clients == {<<1, 2, 1>>, <<1, 2, 2>>, <<4, 3, 1>>, <<5, 4, 1>>, <<1, 6, 5>>}
\* The factories signal 2 may be set to.
SignalFactories == {1}

Concrete(v) == [callable |-> FALSE, x |-> v]
Callable(p) == [callable |-> TRUE, x |-> p]

NoExc == "none"
SignalExceptions == {"DangerousSignalDependencyException",
                     "MismatchedCollectionStackException"}

VARIABLES
  flag,            \* node -> its FlagDispatcher's __flag
  subs,            \* node -> the handlers subscribed to its FlagDispatcher
  deps,            \* node -> _dependencies (the nodes whose latch it subscribed to)
  current,         \* signal -> _current (a concrete value or a factory)
  last,            \* signal or computed -> _last
  initial,         \* signal -> __initial
  factory,         \* computed -> _factory
  effect,          \* effect -> _effect, 0 while the effect is not constructed
  callback,        \* effect -> the callback the client passes to createEffect
  CollectionStack, \* DependencyContext.CollectionStack
  CollectionSet,   \* DependencyContext.CollectionSet
  log,             \* effect -> what its callback appended during the last call
  runs,            \* node -> times its factory / callback ran in the last call
  exc,             \* the exception the last call raised, NoExc if it returned
  ret,             \* the value the last call returned
  op,              \* the last call
  selfRead,        \* the last call read a computed signal under evaluation
  got,             \* the nodes whose getter was called in the last call
  streak,          \* node -> its runs over the consecutive equal set() calls so far
  mangledParserCallback, \* signal -> self.__parserCallback, 0 for None
  parserCallback,  \* signal -> self._parserCallback, 0 while it is not set
  disposed,        \* the nodes whose _dispose was called
  disposers,       \* the effects whose createEffect returned its disposer
  frozen           \* signal -> the value a save() collapsed its factory into,
                   \* None once the signal was set, reset or disposed again

sigVars == <<flag, subs, deps, current, last, initial, factory, effect, callback,
             CollectionStack, CollectionSet, log, runs, exc, ret, op,
             selfRead, got, streak, mangledParserCallback, parserCallback,
             disposed, disposers, frozen>>

\* The graph as one record, at the start of a call whose subscriber sets are
\* iterated in reverse order when rev.  Of the call it keeps the functions
\* being executed (evals), the nodes each node's latest evaluation read
\* (reads), and the nodes whose latest evaluation returned (done).
Graph(rev) ==
  [flag |-> flag, subs |-> subs, deps |-> deps, current |-> current,
   last |-> last, initial |-> initial, factory |-> factory, effect |-> effect,
   mangledParserCallback |-> mangledParserCallback,
   parserCallback |-> parserCallback,
   stack |-> CollectionStack, cset |-> CollectionSet,
   log |-> [e \in Effects |-> <<>>],
   runs |-> [n \in Nodes |-> 0], exc |-> NoExc, ret |-> None,
   rev |-> rev, evals |-> <<>>, selfRead |-> FALSE, got |-> {}, depth |-> 0,
   reads |-> [n \in Nodes |-> {}], done |-> {}]

\* The reducer builder, and the last call of a reducer.
VARIABLES
  actions_map,     \* builder.actions_map: action type -> handler
  matchers_map,    \* builder.matchers_map, in insertion order
  default_reducer, \* builder.default_reducer
  accepted,        \* the registrations the builder accepted, in call order
  built,           \* createReducer has returned
  bop,             \* the last call, if it was a call on the builder
  bexc,            \* the exception that builder call raised
  rop,             \* the last call, if it was a call of a reducer
  arg,             \* the state S it was called with, as S read before the call
  after,           \* the same S as it reads after the call
  out,             \* the state the call returned
  rexc,            \* the exception the call raised
  calls,           \* the handlers the call invoked, in order
  warned,          \* the call emitted a warning
  slice_calls,     \* the slice reducers a combined call invoked, in order
  root_arg         \* the state a combined call handed to its root reducer

redVars == <<actions_map, matchers_map, default_reducer, accepted, built, bop,
             bexc, rop, arg, after, out, rexc, calls, warned, slice_calls,
             root_arg>>

\* The store.
VARIABLES
  store_state,     \* RenpyduxStore.__state
  store_event,     \* the ValueDispatcher's __value: the last published pair
  subscribers,     \* the ValueDispatcher's __subscribers
  received,        \* handler -> the pairs it was handed during the last call
  before,          \* store_state when the last call began
  dop,             \* the last store call
  dret,            \* what it returned
  dexc             \* the exception it raised

storeVars == <<store_state, store_event, subscribers, received, before, dop,
               dret, dexc>>

\* A FlagDispatcher a client holds, and the last call on it.
VARIABLES
  latch_flag,        \* FlagDispatcher.__flag
  latch_subscribers, \* EventDispatcherBase.__subscribers
  capabilities,      \* handler -> the unsubscribe capabilities subscribe returned
  notified,          \* handler -> times notify invoked it during the last call
  replayed,          \* handler -> times subscribe invoked it during the last call
  lop,               \* the last call, with __flag and whether its handler
                     \* was subscribed when it began
  lexc               \* the exception it raised

latchVars == <<latch_flag, latch_subscribers, capabilities, notified, replayed,
               lop, lexc>>

vars == <<sigVars, redVars, storeVars, latchVars>>

Raise(g, e) == [g EXCEPT !.exc = e]
Failed(g) == g.exc # NoExc

\* Statement sequencing: the graph x a statement left, then the rest K of the
\* body.  After a raise the rest of the body is skipped.
Then(x, K(_)) == CHOOSE r \in {K(a) : a \in {x}} : TRUE
Try(x, K(_)) == CHOOSE r \in {IF Failed(a) THEN a ELSE K(a) : a \in {x}} : TRUE

\* ---------------------------------------------------- DependencyContext
ClearDependencies(g, n) ==
  [g EXCEPT !.subs = [d \in Nodes |-> IF d \in g.deps[n]
                                      THEN g.subs[d] \ {<<"md", n>>}
                                      ELSE g.subs[d]],
            !.deps[n] = {}]

BeginCollection(g, n) ==
  IF n \in g.cset
  THEN Raise(g, "DangerousSignalDependencyException")
  ELSE [g EXCEPT !.stack = Append(@, n), !.cset = @ \cup {n}]

EndCollection(g, n) ==
  IF g.stack = <<>> THEN Raise([g EXCEPT !.cset = @ \ {n}], "IndexError")
  ELSE IF g.stack[Len(g.stack)] # n
       THEN Raise([g EXCEPT !.cset = @ \ {n},
                            !.stack = SubSeq(@, 1, Len(@) - 1)],
                  "MismatchedCollectionStackException")
       ELSE [g EXCEPT !.cset = @ \ {n}, !.stack = SubSeq(@, 1, Len(@) - 1)]

\* Where a handler sits in a subscriber set's iteration order.
Rank(g, h) == IF g.rev THEN NumNodes + 1 - h[2] ELSE h[2]

RECURSIVE RaiseFlag(_, _), NotifyFrom(_, _, _, _), Call(_, _), Update(_, _)
RECURSIVE SignalGetter(_, _), ComputedGetter(_, _), Get(_, _)
RECURSIVE ReadAll(_, _, _, _), Eval(_, _), Invoke(_, _, _)

\* EventDispatcherBase.notify: the list comprehension walks the live set.  The
\* iterator raises when the set's size differs from its size at the start, and
\* otherwise goes on to the next handler after the one it last returned.
NotifyFrom(g, n, used, pos) ==
  IF Cardinality(g.subs[n]) # used THEN Raise(g, "RuntimeError")
  ELSE LET rest == {h \in g.subs[n] : Rank(g, h) > pos} IN
       IF rest = {} THEN g
       ELSE LET h == CHOOSE x \in rest : \A y \in rest : Rank(g, x) <= Rank(g, y)
            IN Try(Call(g, h), LAMBDA a : NotifyFrom(a, n, used, Rank(g, h)))

Notify(g, n) == NotifyFrom(g, n, Cardinality(g.subs[n]), 0)

\* FlagDispatcher.raiseFlag.  A propagation that never ends exhausts the
\* interpreter's stack.
RaiseFlag(g, n) ==
  IF g.flag[n] THEN g
  ELSE IF g.depth >= RecursionLimit THEN Raise(g, "RecursionError")
  ELSE Try(Then([g EXCEPT !.flag[n] = TRUE, !.depth = @ + 1],
                LAMBDA a : Notify(a, n)),
           LAMBDA b : [b EXCEPT !.depth = g.depth])

\* A subscribed handler: a node's _markDirty, or an effect's __update.
Call(g, h) == IF h[1] = "md" THEN RaiseFlag(g, h[2]) ELSE Update(g, h[2])

\* FlagDispatcher.subscribe
Subscribe(g, n, h) ==
  IF g.flag[n] THEN Then([g EXCEPT !.subs[n] = @ \cup {h}], LAMBDA a : Call(a, h))
  ELSE [g EXCEPT !.subs[n] = @ \cup {h}]

Collect(g, n) ==
  IF g.stack = <<>> THEN g
  ELSE Then([g EXCEPT !.deps[g.stack[Len(g.stack)]] = @ \cup {n}],
            LAMBDA a : Subscribe(a, n, <<"md", g.stack[Len(g.stack)]>>))

\* ------------------------------------------- factories and effect bodies
ReadAll(g, r, i, acc) ==
  IF i > Len(r) THEN [g EXCEPT !.ret = acc % (MaxVal + 1)]
  ELSE Try(Get(g, r[i]), LAMBDA a : ReadAll(a, r, i + 1, acc + a.ret))

Eval(g, p) ==
  CASE p.kind = "sum" -> ReadAll(g, p.r, 1, 0)
    [] p.kind = "cond" ->
         Try(Get(g, p.r[1]),
             LAMBDA a : IF a.ret = 1 THEN Get(a, p.r[2]) ELSE Get(a, p.r[3]))
    [] p.kind = "raise" ->
         Try(ReadAll(g, p.r, 1, 0), LAMBDA a : Raise(a, "UserError"))

\* One invocation of node n's function pid.
Invoke(g, n, pid) ==
  Try(Then([g EXCEPT !.runs[n] = @ + 1, !.evals = Append(@, n),
                     !.reads[n] = {}, !.done = @ \ {n}],
           LAMBDA a : Eval(a, Programs[pid])),
      LAMBDA b : [b EXCEPT !.evals = g.evals, !.done = @ \cup {n}])

\* ---------------------------------------------------------- SignalContext
\* The normalizer a client hands to defineParser.
ParserFn(value) == (value % MaxVal) + 1

\* SignalContext._parser on a value that is no callable: it reads
\* self.__parserCallback.
Parser(g, n, value) ==
  IF g.mangledParserCallback[n] # 0 THEN ParserFn(value) ELSE value

\* SignalContext.defineParser: it assigns self._parserCallback.
DefineParserCall(g, n, fn) == [g EXCEPT !.parserCallback[n] = fn]

\* The tail of both getters: reset the latch, register the reader, return _last.
Deliver(g, n) ==
  Try(Then([g EXCEPT !.flag[n] = FALSE], LAMBDA a : Collect(a, n)),
      LAMBDA d : IF d.last[n] = None THEN Raise(d, "Exception")
                 ELSE [d EXCEPT !.ret = d.last[n]])

\* The factory call of SignalContext.getter, inside its try / except.
Guarded(g, n) ==
  Then(Invoke(g, n, g.current[n].x),
       LAMBDA b : IF ~Failed(b) THEN [b EXCEPT !.last[n] = Parser(b, n, b.ret)]
                  ELSE IF b.exc \in SignalExceptions
                       THEN [b EXCEPT !.exc = NoExc, !.evals = g.evals]
                       ELSE b)

SignalGetter(g, n) ==
  IF g.flag[n] /\ g.current[n].callable
  THEN Try(Try(Try(Then(ClearDependencies(g, n),
                        LAMBDA a : BeginCollection(a, n)),
                   LAMBDA b : Guarded(b, n)),
               LAMBDA c : EndCollection(c, n)),
           LAMBDA d : Deliver(d, n))
  ELSE Deliver(g, n)

MarkDirty(g, n) == RaiseFlag(g, n)

\* A setter that keeps the subscriptions of the value it replaces.
SetterKeepsDependencies(g, n, v) ==
  LET value == IF v = DEFAULT THEN g.initial[n] ELSE v IN
  IF g.current[n] = value THEN g
  ELSE Then(Then([g EXCEPT !.current[n] = value],
                 LAMBDA a : IF ~value.callable
                            THEN [a EXCEPT !.last[n] = Parser(a, n, value.x)]
                            ELSE a),
            LAMBDA b : MarkDirty(b, n))

Setter(g, n, v) ==
  LET value == IF v = DEFAULT THEN g.initial[n] ELSE v IN
  IF g.current[n] = value THEN g
  ELSE Then(Then(ClearDependencies([g EXCEPT !.current[n] = value], n),
                 LAMBDA a : IF ~value.callable
                            THEN [a EXCEPT !.last[n] = Parser(a, n, value.x)]
                            ELSE a),
            LAMBDA b : MarkDirty(b, n))

\* -------------------------------------------------------- ComputedContext
\* A getter that resets the latch before it evaluates the factory.
ComputedGetterResetsFirst(g, n) ==
  IF g.flag[n]
  THEN Try(Try(Try(Then(ClearDependencies([g EXCEPT !.flag[n] = FALSE], n),
                        LAMBDA a : BeginCollection(a, n)),
                   LAMBDA b : Invoke(b, n, b.factory[n])),
               LAMBDA c : EndCollection([c EXCEPT !.last[n] = c.ret], n)),
           LAMBDA d : Deliver(d, n))
  ELSE Deliver(g, n)

\* A getter that re-evaluates without releasing its edges first.
ComputedGetterKeepsEdges(g, n) ==
  IF g.flag[n]
  THEN Try(Try(Try(BeginCollection(g, n),
                   LAMBDA b : Invoke(b, n, b.factory[n])),
               LAMBDA c : EndCollection([c EXCEPT !.last[n] = c.ret], n)),
           LAMBDA d : Deliver(d, n))
  ELSE Deliver(g, n)

ComputedGetter(g, n) ==
  IF g.flag[n]
  THEN Try(Try(Try(Then(ClearDependencies(g, n),
                        LAMBDA a : BeginCollection(a, n)),
                   LAMBDA b : Invoke(b, n, b.factory[n])),
               LAMBDA c : EndCollection([c EXCEPT !.last[n] = c.ret], n)),
           LAMBDA d : Deliver(d, n))
  ELSE Deliver(g, n)

\* DependencyContext._dispose
DisposeContext(g, n) ==
  Then(ClearDependencies(g, n), LAMBDA a : [a EXCEPT !.subs[n] = {}])

\* SignalContext._dispose
DisposeSignalCall(g, n) ==
  Then(DisposeContext(g, n),
       LAMBDA a : [a EXCEPT !.initial[n] = NoneRaw, !.last[n] = None,
                            !.current[n] = NoneRaw])

\* SignalContext.reset
ResetCall(g, n) ==
  IF g.initial[n] # NoneRaw THEN Setter(g, n, g.initial[n]) ELSE g

\* Signal.get / ComputedSignal.__call__ on node n.
Get(g, n) ==
  Then([g EXCEPT !.got = @ \cup {n},
                 !.reads = IF g.evals = <<>> THEN @
                           ELSE [@ EXCEPT ![g.evals[Len(g.evals)]] = @ \cup {n}],
                 !.selfRead = @ \/ (/\ n \in Computeds
                                    /\ \E i \in 1..Len(g.evals) : g.evals[i] = n
                                    /\ \A i \in 1..Len(g.evals) :
                                         g.evals[i] \in Computeds)],
       LAMBDA a : IF n \in Signals THEN SignalGetter(a, n)
                  ELSE ComputedGetter(a, n))

\* SignalContext.save
SaveCall(g, n) == Try(Get(g, n), LAMBDA a : Setter(a, n, Concrete(a.ret)))

\* ----------------------------------------------------------- EffectContext
\* EffectContext.__update, with the callback appending what it read to its log.
Update(g, e) ==
  Try(Try(Try(Then(ClearDependencies(g, e), LAMBDA a : BeginCollection(a, e)),
              LAMBDA b : Invoke(b, e, b.effect[e])),
          LAMBDA c : EndCollection([c EXCEPT !.log[e] = Append(@, c.ret)], e)),
      LAMBDA d : [d EXCEPT !.flag[e] = FALSE])

\* EffectContext.__init__
NewEffect(g, e, pid) ==
  Then([g EXCEPT !.effect[e] = pid, !.deps[e] = {}, !.flag[e] = FALSE,
                 !.subs[e] = {<<"upd", e>>}],
       LAMBDA a : MarkDirty(a, e))

\* ------------------------------------------------------------ the calls
\* The state after a call that took the graph to g.
Returned(g, call) ==
  /\ flag' = g.flag
  /\ subs' = g.subs
  /\ deps' = g.deps
  /\ current' = g.current
  /\ last' = g.last
  /\ initial' = g.initial
  /\ factory' = g.factory
  /\ effect' = g.effect
  /\ UNCHANGED callback
  /\ CollectionStack' = g.stack
  /\ CollectionSet' = g.cset
  /\ log' = g.log
  /\ runs' = g.runs
  /\ exc' = g.exc
  /\ ret' = IF Failed(g) THEN None ELSE g.ret
  /\ op' = call
  /\ selfRead' = g.selfRead
  /\ got' = g.got
  /\ mangledParserCallback' = g.mangledParserCallback
  /\ parserCallback' = g.parserCallback
  /\ UNCHANGED <<redVars, storeVars, latchVars>>

NoRuns == [m \in Nodes |-> 0]

\* A call that gave signal n another raw value ends what a save() froze.
Thaw(g, n) ==
  IF g.current[n] # current[n] THEN [frozen EXCEPT ![n] = None] ELSE frozen

\* s.set(v)
Set(n, v, rev) ==
  /\ \E g \in {Setter(Graph(rev), n, v)} :
       LET value == IF v = DEFAULT THEN initial[n] ELSE v
           same == op.name = "set" /\ op.n = n /\ op.v = value
       IN /\ Returned(g, [name |-> "set", n |-> n, v |-> value])
          /\ streak' = [m \in Nodes |-> IF same THEN streak[m] + g.runs[m]
                                         ELSE g.runs[m]]
          /\ frozen' = Thaw(g, n)
  /\ UNCHANGED <<disposed, disposers>>

\* s.get() or c() from outside any evaluation.
Read(n, rev) ==
  /\ \E g \in {Get(Graph(rev), n)} :
       Returned(g, [name |-> "get", n |-> n, v |-> NoneRaw])
  /\ streak' = NoRuns
  /\ UNCHANGED <<disposed, disposers, frozen>>

\* createEffect(callback)
CreateEffect(e, rev) ==
  /\ effect[e] = 0
  /\ \E g \in {NewEffect(Graph(rev), e, callback[e])} :
       /\ Returned(g, [name |-> "createEffect", n |-> e, v |-> NoneRaw])
       /\ disposers' = IF Failed(g) THEN disposers ELSE disposers \cup {e}
  /\ streak' = NoRuns
  /\ UNCHANGED <<disposed, frozen>>

\* s.save()
Save(n, rev) ==
  /\ \E g \in {SaveCall(Graph(rev), n)} :
       /\ Returned(g, [name |-> "save", n |-> n, v |-> NoneRaw])
       /\ frozen' = IF ~Failed(g) /\ current[n].callable
                     THEN [frozen EXCEPT ![n] = g.ret]
                     ELSE Thaw(g, n)
  /\ streak' = NoRuns
  /\ UNCHANGED <<disposed, disposers>>

\* s.reset()
Reset(n, rev) ==
  /\ \E g \in {ResetCall(Graph(rev), n)} :
       /\ Returned(g, [name |-> "reset", n |-> n, v |-> NoneRaw])
       /\ frozen' = Thaw(g, n)
  /\ streak' = NoRuns
  /\ UNCHANGED <<disposed, disposers>>

\* s.defineParser(fn)
DefineParser(n) ==
  /\ parserCallback[n] = 0
  /\ \E g \in {DefineParserCall(Graph(FALSE), n, 1)} :
       Returned(g, [name |-> "defineParser", n |-> n, v |-> NoneRaw])
  /\ streak' = NoRuns
  /\ UNCHANGED <<disposed, disposers, frozen>>

\* s.context._dispose()
DisposeSignal(n) ==
  /\ n \notin disposed
  /\ \E g \in {DisposeSignalCall(Graph(FALSE), n)} :
       Returned(g, [name |-> "dispose", n |-> n, v |-> NoneRaw])
  /\ streak' = NoRuns
  /\ disposed' = disposed \cup {n}
  /\ frozen' = [frozen EXCEPT ![n] = None]
  /\ UNCHANGED disposers

\* dispose(), the disposer createEffect returned
DisposeEffect(e) ==
  /\ e \in disposers
  /\ e \notin disposed
  /\ \E g \in {DisposeContext(Graph(FALSE), e)} :
       Returned(g, [name |-> "dispose", n |-> e, v |-> NoneRaw])
  /\ streak' = NoRuns
  /\ disposed' = disposed \cup {e}
  /\ UNCHANGED <<disposers, frozen>>

\* After construction: createSignal(1) for every signal and
\* createComputedSignal(factory) for every computed signal, the functions
\* being those of one of the client programs.
SigStart(clients) ==
  /\ initial = [n \in Signals |-> Concrete(1)]
  /\ current = initial
  /\ last = [n \in Readable |-> IF n \in Signals THEN initial[n].x ELSE None]
  /\ flag = [n \in Nodes |-> n \in Readable]
  /\ subs = [n \in Nodes |-> {}]
  /\ deps = [n \in Nodes |-> {}]
  /\ \E c \in clients : /\ factory = (3 :> c[1]) @@ (4 :> c[2])
                         /\ callback = (5 :> c[3])
  /\ effect = [e \in Effects |-> 0]
  /\ CollectionStack = <<>>
  /\ CollectionSet = {}
  /\ log = [e \in Effects |-> <<>>]
  /\ runs = NoRuns
  /\ exc = NoExc
  /\ ret = None
  /\ op = [name |-> "init", n |-> 0, v |-> NoneRaw]
  /\ selfRead = FALSE
  /\ got = {}
  /\ streak = NoRuns
  /\ mangledParserCallback = [n \in Signals |-> 0]
  /\ parserCallback = [n \in Signals |-> 0]
  /\ disposed = {}
  /\ disposers = {}
  /\ frozen = [n \in Signals |-> None]

SigInit == SigStart(Clients)

\* What set() is called with: a value, DEFAULT, or (signal 2) a factory.
SetInputs(n) == {Concrete(v) : v \in 1..MaxVal} \cup {DEFAULT}
                  \cup {Callable(p) : p \in IF n = 2 THEN SignalFactories ELSE {}}

SigNext ==
  \/ \E n \in Signals, rev \in BOOLEAN : \E v \in SetInputs(n) : Set(n, v, rev)
  \/ \E n \in Readable, rev \in BOOLEAN : Read(n, rev)
  \/ \E e \in Effects, rev \in BOOLEAN : CreateEffect(e, rev)

\* The calls of a client that gives signal 2 a factory which reads signal 1
\* and then, by its value, computed signal 4 or signal 2 itself.
GuardInputs(n) == {Concrete(v) : v \in 1..MaxVal} \cup {DEFAULT}
                    \cup {Callable(p) : p \in IF n = 2 THEN {5} ELSE {}}

GuardNext ==
  \/ \E n \in Signals, rev \in BOOLEAN : \E v \in GuardInputs(n) : Set(n, v, rev)
  \/ \E n \in Readable, rev \in BOOLEAN : Read(n, rev)
  \/ \E e \in Effects, rev \in BOOLEAN : CreateEffect(e, rev)

\* The calls of a client that also saves, resets and disposes: the parser is
\* defined on signal 1, and signal 2, which can hold a factory, is the one
\* saved and disposed.
LifeNext ==
  \/ \E n \in Signals, rev \in BOOLEAN : \E v \in SetInputs(n) : Set(n, v, rev)
  \/ \E n \in Signals, rev \in BOOLEAN : Read(n, rev)
  \/ \E e \in Effects, rev \in BOOLEAN : CreateEffect(e, rev)
  \/ \E rev \in BOOLEAN : Save(2, rev)
  \/ \E n \in Signals, rev \in BOOLEAN : Reset(n, rev)
  \/ DefineParser(1)
  \/ DisposeSignal(2)
  \/ \E e \in Effects : DisposeEffect(e)

\* ================================================================ renpydux
\* A state is an object on a heap: a sequence of objects, an object's address
\* being its index.  A call runs on a machine record m: the heap, the raised
\* exception, the returned address, the handlers invoked so far, and whether a
\* warning was emitted.
Character(hp) == [kind |-> "Character", hp |-> hp]
OverarchingState(player, enemy, game_over) ==
  [kind |-> "OverarchingState", player |-> player, enemy |-> enemy,
   game_over |-> game_over]

\* No state: the state of a call that raised, or of no call.
NoValue == [none |-> TRUE]

Machine(heap) ==
  [heap |-> heap, exc |-> NoExc, ret |-> None, calls |-> <<>>, warned |-> FALSE,
   slices |-> <<>>, root |-> NoValue]

Alloc(m, obj) == [m EXCEPT !.heap = Append(@, obj), !.ret = Len(m.heap) + 1]

\* What reading the state at address addr gives, its nested states included.
Value(heap, addr) ==
  IF heap[addr].kind = "Character" THEN [hp |-> heap[addr].hp]
  ELSE [player |-> [hp |-> heap[heap[addr].player].hp],
        enemy |-> [hp |-> heap[heap[addr].enemy].hp],
        game_over |-> heap[addr].game_over]

\* No copy: the same object.
CopyIsSameObject(m, addr) == [m EXCEPT !.ret = addr]

\* copy.copy: a new object with the same attribute values.
Copy(m, addr) == Alloc(m, m.heap[addr])

DeepCopy(m, addr) ==
  IF m.heap[addr].kind = "Character" THEN Alloc(m, m.heap[addr])
  ELSE Then(Alloc(m, m.heap[m.heap[addr].player]),
            LAMBDA p : Then(Alloc(p, p.heap[p.heap[addr].enemy]),
                            LAMBDA q : Alloc(q, [q.heap[addr] EXCEPT
                                                   !.player = p.ret,
                                                   !.enemy = q.ret])))

\* The draft session `with Proxy(base) as (state, new_state)': entering gives a
\* mutable draft of base, leaving materialises the draft's edits into a fresh
\* copy bound to new_state.  The base object is never written.
ProxyEnter(m, base) == DeepCopy(m, base)
ProxyExit(m, draft) == DeepCopy(m, draft)

\* ------------------------------------------------ actions and client code
ActionTypes == {"DAMAGE", "HEAL", "NOPE"}
\* The actions a client dispatches: create_action(type, 1).
Actions == {[type |-> t, payload |-> 1] : t \in ActionTypes}
\* action=None
NoAction == [type |-> "None", payload |-> None]

\* The handlers a client registers.  Each edits the draft of a Character.
Handlers == {"handle_damage", "handle_heal"}
NoHandler == "None"
HandlerResult(handler, hp, action) ==
  CASE handler = "handle_damage" ->
         IF hp - action.payload < 0 THEN 0 ELSE hp - action.payload
    [] handler = "handle_heal" -> MaxHp

\* The matcher predicates a client registers.
Matchers == {"is_heal", "always"}
Matches(matcher, action) ==
  CASE matcher = "is_heal" -> action.type = "HEAL"
    [] matcher = "always" -> TRUE

\* reducer_action(state, action), from the tier of handlers `tier'.
CallHandler(m, tier, handler, state, action) ==
  [m EXCEPT !.heap[state].hp = HandlerResult(handler, @, action),
            !.calls = Append(@, [tier |-> tier, handler |-> handler])]

\* ------------------------------------------------ ActionReducerMapBuilder
\* actions_map maps a type that is no key of the dict to NoHandler.
RegTypes == ActionTypes \cup {""}
\* The types add_case is called with.
CaseTypes == {"", "DAMAGE", "HEAL"}

\* add_case without its test of matchers_map.
add_case_error_ignores_matchers(type) ==
  IF default_reducer # NoHandler
  THEN "add_case must be called before set_default_reducer"
  ELSE IF type = "" THEN "Action type is required"
  ELSE IF actions_map[type] # NoHandler THEN "Action already exists"
  ELSE NoExc

\* The configuration error add_case(action, reducer_action) raises.
add_case_error(type) ==
  IF Len(matchers_map) > 0 THEN "add_case must be called before add_matcher"
  ELSE IF default_reducer # NoHandler
       THEN "add_case must be called before set_default_reducer"
  ELSE IF type = "" THEN "Action type is required"
  ELSE IF actions_map[type] # NoHandler THEN "Action already exists"
  ELSE NoExc

add_matcher_error ==
  IF default_reducer # NoHandler
  THEN "add_matcher must be called before set_default_reducer"
  ELSE NoExc

set_default_reducer_error ==
  IF default_reducer # NoHandler THEN "Default reducer already set" ELSE NoExc

\* matchers_map[matcher] = reducer_action: a key already in the dict keeps its
\* place.
PutMatcher(map, matcher, handler) ==
  IF \E i \in 1..Len(map) : map[i].matcher = matcher
  THEN [i \in 1..Len(map) |-> IF map[i].matcher = matcher
                              THEN [matcher |-> matcher, handler |-> handler]
                              ELSE map[i]]
  ELSE Append(map, [matcher |-> matcher, handler |-> handler])

\* The builder stays reachable through the reference the configuration callback
\* was handed, so registrations are called before and after createReducer
\* returns.
Room == Len(accepted) < MaxRegs

\* The last call is a call on the builder, not one of a reducer.
BuilderCall ==
  /\ rop' = [name |-> "none", action |-> [type |-> "None", payload |-> None]]
  /\ arg' = NoValue
  /\ after' = NoValue
  /\ out' = NoValue
  /\ rexc' = NoExc
  /\ calls' = <<>>
  /\ warned' = FALSE
  /\ slice_calls' = <<>>
  /\ root_arg' = NoValue

add_case(type, handler) ==
  /\ Room
  /\ bop' = [name |-> "add_case", key |-> type, handler |-> handler]
  /\ bexc' = add_case_error(type)
  /\ IF add_case_error(type) = NoExc
     THEN /\ actions_map' = [actions_map EXCEPT ![type] = handler]
          /\ accepted' = Append(accepted, [kind |-> "case", key |-> type])
     ELSE UNCHANGED <<actions_map, accepted>>
  /\ BuilderCall
  /\ UNCHANGED <<matchers_map, default_reducer, built>>
  /\ UNCHANGED <<sigVars, storeVars, latchVars>>

add_matcher(matcher, handler) ==
  /\ Room
  /\ bop' = [name |-> "add_matcher", key |-> matcher, handler |-> handler]
  /\ bexc' = add_matcher_error
  /\ IF add_matcher_error = NoExc
     THEN /\ matchers_map' = PutMatcher(matchers_map, matcher, handler)
          /\ accepted' = Append(accepted, [kind |-> "matcher", key |-> matcher])
     ELSE UNCHANGED <<matchers_map, accepted>>
  /\ BuilderCall
  /\ UNCHANGED <<actions_map, default_reducer, built>>
  /\ UNCHANGED <<sigVars, storeVars, latchVars>>

set_default_reducer(handler) ==
  /\ Room
  /\ bop' = [name |-> "set_default_reducer", key |-> "", handler |-> handler]
  /\ bexc' = set_default_reducer_error
  /\ IF set_default_reducer_error = NoExc
     THEN /\ default_reducer' = handler
          /\ accepted' = Append(accepted, [kind |-> "default", key |-> ""])
     ELSE UNCHANGED <<default_reducer, accepted>>
  /\ BuilderCall
  /\ UNCHANGED <<actions_map, matchers_map, built>>
  /\ UNCHANGED <<sigVars, storeVars, latchVars>>

\* createReducer returns the reducer over the builder's tables.
createReducer ==
  /\ ~built
  /\ built' = TRUE
  /\ bop' = [name |-> "createReducer", key |-> "", handler |-> NoHandler]
  /\ bexc' = NoExc
  /\ BuilderCall
  /\ UNCHANGED <<actions_map, matchers_map, default_reducer, accepted>>
  /\ UNCHANGED <<sigVars, storeVars, latchVars>>

\* ------------------------------------------------- createReducer.reducer
\* warnings.warn(message, category): the category has to be a Warning
\* subclass, and an action object is none.
Warn(m, category) ==
  IF category \in Actions THEN Raise(m, "TypeError")
  ELSE [m EXCEPT !.warned = TRUE]

RECURSIVE RunMatchers(_, _, _, _)
\* for matcher, reducer_action in builder.matchers_map.items()
RunMatchers(m, i, state, action) ==
  IF i > Len(matchers_map) THEN m
  ELSE IF Matches(matchers_map[i].matcher, action)
       THEN Then(CallHandler(m, "matcher", matchers_map[i].handler, state, action),
                 LAMBDA x : RunMatchers(x, i + 1, state, action))
       ELSE RunMatchers(m, i + 1, state, action)

reducer(m, base_state, action) ==
  IF base_state = None THEN Raise(m, "Exception")
  ELSE Then(ProxyEnter(m, base_state), LAMBDA s :
    IF action = NoAction THEN ProxyExit(s, s.ret)
    ELSE IF actions_map[action.type] # NoHandler
    THEN Then(CallHandler(s, "case", actions_map[action.type], s.ret, action),
              LAMBDA x : ProxyExit(x, s.ret))
    ELSE Then(RunMatchers(s, 1, s.ret, action), LAMBDA x :
           IF default_reducer # NoHandler
           THEN Then(CallHandler(x, "default", default_reducer, s.ret, action),
                     LAMBDA y : ProxyExit(y, s.ret))
           ELSE Try(Warn(ProxyExit(x, s.ret), action),
                    LAMBDA y : [y EXCEPT !.ret = base_state])))

\* ------------------------------------------------------- combineReducers
\* The root reducer of a client: the game is over once a character of the
\* incoming state is at 0 hp.
game_reducer(m, state, action) ==
  Then(ProxyEnter(m, state), LAMBDA s :
    IF action # NoAction /\ action.type = "DAMAGE"
       /\ (s.heap[s.heap[state].enemy].hp <= 0
           \/ s.heap[s.heap[state].player].hp <= 0)
    THEN ProxyExit([s EXCEPT !.heap[s.ret].game_over = TRUE], s.ret)
    ELSE ProxyExit(s, s.ret))

\* The dict handed to combineReducers, in insertion order.
Slices == << [name |-> "player", reducer |-> "reducer"],
             [name |-> "inventory", reducer |-> "reducer"],
             [name |-> "enemy", reducer |-> "reducer"],
             [name |-> "root", reducer |-> "game_reducer"] >>

CallReducer(m, name, state, action) ==
  IF name = "reducer" THEN reducer(m, state, action)
  ELSE game_reducer(m, state, action)

\* The slice reducer of Slices[i] was handed sub_state and returned u.ret.
Sliced(u, i, sub_state) ==
  [u EXCEPT !.slices = Append(@, [name |-> Slices[i].name,
                                  given |-> Value(u.heap, sub_state),
                                  returned |-> Value(u.heap, u.ret)])]

RECURSIVE RunSlicesDropsResult(_, _, _, _)
\* The loop over the slices without its setattr.
RunSlicesDropsResult(m, next_state, i, action) ==
  IF i > Len(Slices) THEN m
  ELSE IF Slices[i].name = "root"
       THEN RunSlicesDropsResult(m, next_state, i + 1, action)
  ELSE IF Slices[i].name \notin DOMAIN m.heap[next_state]
       THEN RunSlicesDropsResult(m, next_state, i + 1, action)
  ELSE Try(CallReducer(m, Slices[i].reducer,
                       m.heap[next_state][Slices[i].name], action),
           LAMBDA u : RunSlicesDropsResult(
                        Sliced(u, i, m.heap[next_state][Slices[i].name]),
                        next_state, i + 1, action))

RECURSIVE RunSlices(_, _, _, _)
\* for slice_name, reducer in slices.items()
RunSlices(m, next_state, i, action) ==
  IF i > Len(Slices) THEN m
  ELSE IF Slices[i].name = "root" THEN RunSlices(m, next_state, i + 1, action)
  ELSE IF Slices[i].name \notin DOMAIN m.heap[next_state]
       THEN RunSlices(m, next_state, i + 1, action)
  ELSE Try(CallReducer(m, Slices[i].reducer,
                       m.heap[next_state][Slices[i].name], action),
           LAMBDA u : RunSlices(
                        [Sliced(u, i, m.heap[next_state][Slices[i].name])
                           EXCEPT !.heap[next_state][Slices[i].name] = u.ret],
                        next_state, i + 1, action))

\* slices.get("root")
RootSlice ==
  IF \E i \in 1..Len(Slices) : Slices[i].name = "root"
  THEN (CHOOSE sl \in {Slices[i] : i \in 1..Len(Slices)} : sl.name = "root").reducer
  ELSE NoHandler

\* The root reducer call, handed the state at address state.
CallRoot(s, state, action) ==
  CallReducer([s EXCEPT !.root = Value(s.heap, state)], RootSlice, state, action)

\* A combined reducer that hands its root reducer the incoming state.
combined_reducer_root_on_incoming(m, state, action) ==
  Then(Copy(m, state), LAMBDA c :
    Try(RunSlices(c, c.ret, 1, action), LAMBDA s :
      IF RootSlice # NoHandler THEN CallRoot(s, state, action)
      ELSE [s EXCEPT !.ret = c.ret]))

combined_reducer(m, state, action) ==
  Then(Copy(m, state), LAMBDA c :
    Try(RunSlices(c, c.ret, 1, action), LAMBDA s :
      IF RootSlice # NoHandler THEN CallRoot(s, c.ret, action)
      ELSE [s EXCEPT !.ret = c.ret]))

\* ------------------------------------------------------ the reducer calls
Finished(m, call) ==
  /\ rop' = call
  /\ after' = Value(m.heap, 1)
  /\ out' = IF Failed(m) THEN NoValue ELSE Value(m.heap, m.ret)
  /\ rexc' = m.exc
  /\ calls' = m.calls
  /\ warned' = m.warned
  /\ slice_calls' = m.slices
  /\ root_arg' = m.root
  /\ bop' = [name |-> "none", key |-> "", handler |-> NoHandler]
  /\ bexc' = NoExc
  /\ UNCHANGED <<actions_map, matchers_map, default_reducer, accepted, built>>
  /\ UNCHANGED <<sigVars, storeVars, latchVars>>

\* reducer(S, action) on a Character S
Reduce(hp, action) ==
  /\ built
  /\ \E m \in {reducer(Machine(<<Character(hp)>>), 1, action)} :
       /\ Finished(m, [name |-> "reducer", action |-> action])
       /\ arg' = [hp |-> hp]

\* combineReducers(slices)(S, action) on an OverarchingState S
CombinedReduce(player, enemy, action) ==
  /\ built
  /\ \E m \in {combined_reducer(
                 Machine(<<OverarchingState(2, 3, FALSE), Character(player),
                           Character(enemy)>>), 1, action)} :
       /\ Finished(m, [name |-> "combined_reducer", action |-> action])
       /\ arg' = [player |-> [hp |-> player], enemy |-> [hp |-> enemy],
                  game_over |-> FALSE]

RedInit ==
  /\ actions_map = [type \in RegTypes |-> NoHandler]
  /\ matchers_map = <<>>
  /\ default_reducer = NoHandler
  /\ accepted = <<>>
  /\ built = FALSE
  /\ bop = [name |-> "ActionReducerMapBuilder", key |-> "", handler |-> NoHandler]
  /\ bexc = NoExc
  /\ rop = [name |-> "none", action |-> NoAction]
  /\ arg = NoValue
  /\ after = NoValue
  /\ out = NoValue
  /\ rexc = NoExc
  /\ calls = <<>>
  /\ warned = FALSE
  /\ slice_calls = <<>>
  /\ root_arg = NoValue

RedNext ==
  \/ \E type \in CaseTypes, handler \in Handlers : add_case(type, handler)
  \/ \E matcher \in Matchers, handler \in Handlers : add_matcher(matcher, handler)
  \/ \E handler \in Handlers : set_default_reducer(handler)
  \/ createReducer
  \/ \E hp \in 0..MaxHp, action \in Actions \cup {NoAction} : Reduce(hp, action)
  \/ \E player \in {1, MaxHp}, enemy \in {1, MaxHp}, action \in Actions \cup {NoAction} :
       CombinedReduce(player, enemy, action)

\* ========================================================= RenpyduxStore
\* A call on the store runs on a record st: the store's state, the dispatcher's
\* value and subscribers, what each handler was handed, the raised exception
\* and the returned value.  Subscriber sets are iterated in reverse when rev.
Store(rev) ==
  [state |-> store_state, event |-> store_event, subs |-> subscribers,
   received |-> [h \in DOMAIN received |-> <<>>], exc |-> NoExc,
   ret |-> NoValue, rev |-> rev]

\* The handlers a client subscribes: 1 records the pair it is handed, 2 records
\* it and dispatches a DAMAGE action when the pair's next state is at full hp.
StoreHandlers == {1, 2}
StoreRank(st, h) == IF st.rev THEN Cardinality(StoreHandlers) + 1 - h ELSE h

\* self.__reducer(self.__state, action), the reducer being one from
\* createReducer over Character states.
StoreReducer(st, action) ==
  Then(reducer(Machine(<<Character(st.state.hp)>>), 1, action),
       LAMBDA m : IF Failed(m) THEN Raise(st, m.exc)
                  ELSE [st EXCEPT !.ret = Value(m.heap, m.ret)])

RECURSIVE dispatch(_, _), StoreNotifyFrom(_, _, _, _), CallStoreHandler(_, _, _)

\* EventDispatcherBase.notify(value)
StoreNotifyFrom(st, value, used, pos) ==
  IF Cardinality(st.subs) # used THEN Raise(st, "RuntimeError")
  ELSE LET rest == {h \in st.subs : StoreRank(st, h) > pos} IN
       IF rest = {} THEN st
       ELSE LET h == CHOOSE x \in rest :
                       \A y \in rest : StoreRank(st, x) <= StoreRank(st, y)
            IN Try(CallStoreHandler(st, h, value),
                   LAMBDA a : StoreNotifyFrom(a, value, used, StoreRank(st, h)))

StoreNotify(st, value) == StoreNotifyFrom(st, value, Cardinality(st.subs), 0)

\* ValueDispatcher.current = value
SetCurrent(st, value) ==
  Then([st EXCEPT !.event = value], LAMBDA a : StoreNotify(a, a.event))

\* RenpyduxStore.dispatch
dispatch(st, action) ==
  Try(StoreReducer(st, action), LAMBDA r :
    Try(SetCurrent([r EXCEPT !.state = r.ret], <<r.event[2], r.ret>>),
        LAMBDA x : [x EXCEPT !.ret = x.state]))

\* handler(value)
CallStoreHandler(st, h, value) ==
  Then([st EXCEPT !.received[h] = Append(@, value)], LAMBDA a :
    IF h = 2 /\ value[2].hp = MaxHp
    THEN dispatch(a, [type |-> "DAMAGE", payload |-> 1])
    ELSE a)

\* RenpyduxStore.subscribe: ValueDispatcher.subscribe with dispatch_immediately
StoreSubscribeCall(st, h) ==
  Then([st EXCEPT !.subs = @ \cup {h}],
       LAMBDA a : CallStoreHandler(a, h, a.event))

\* The unsubscribe capability subscribe returns.
StoreUnsubscribeCall(st, h) == [st EXCEPT !.subs = @ \ {h}]

StoreReturned(st, call) ==
  /\ store_state' = st.state
  /\ store_event' = st.event
  /\ subscribers' = st.subs
  /\ received' = st.received
  /\ before' = store_state
  /\ dop' = call
  /\ dret' = IF Failed(st) THEN NoValue ELSE st.ret
  /\ dexc' = st.exc
  /\ UNCHANGED <<sigVars, redVars, latchVars>>

Dispatch(action, rev) ==
  \E st \in {dispatch(Store(rev), action)} :
    StoreReturned(st, [name |-> "dispatch", action |-> action, h |-> 0])

StoreSubscribe(h, rev) ==
  \E st \in {StoreSubscribeCall(Store(rev), h)} :
    StoreReturned(st, [name |-> "subscribe", action |-> NoAction, h |-> h])

StoreUnsubscribe(h) ==
  /\ h \in subscribers
  /\ \E st \in {StoreUnsubscribeCall(Store(FALSE), h)} :
       StoreReturned(st, [name |-> "unsubscribe", action |-> NoAction, h |-> h])

\* No store is constructed.
StoreIdle ==
  /\ store_state = NoValue
  /\ store_event = <<NoValue, NoValue>>
  /\ subscribers = {}
  /\ received = [h \in StoreHandlers |-> <<>>]
  /\ before = NoValue
  /\ dop = [name |-> "none", action |-> NoAction, h |-> 0]
  /\ dret = NoValue
  /\ dexc = NoExc

\* RenpyduxStore(reducer, initial_state) with a Character at full hp.
StoreInit ==
  /\ store_state = [hp |-> MaxHp]
  /\ store_event = <<store_state, store_state>>
  /\ subscribers = {}
  /\ received = [h \in StoreHandlers |-> <<>>]
  /\ before = NoValue
  /\ dop = [name |-> "RenpyduxStore", action |-> NoAction, h |-> 0]
  /\ dret = NoValue
  /\ dexc = NoExc

\* The reducers the store is constructed with: a DAMAGE case alone, and a
\* DAMAGE case with a default handler.
StoreReducers ==
  {[default |-> NoHandler,
    accepted |-> <<[kind |-> "case", key |-> "DAMAGE"]>>],
   [default |-> "handle_heal",
    accepted |-> <<[kind |-> "case", key |-> "DAMAGE"],
                   [kind |-> "default", key |-> ""]>>]}

RedBuilt ==
  \E t \in StoreReducers :
    /\ actions_map = [type \in RegTypes |-> IF type = "DAMAGE" THEN "handle_damage"
                                             ELSE NoHandler]
    /\ matchers_map = <<>>
    /\ default_reducer = t.default
    /\ accepted = t.accepted
    /\ built = TRUE
    /\ bop = [name |-> "createReducer", key |-> "", handler |-> NoHandler]
    /\ bexc = NoExc
    /\ rop = [name |-> "none", action |-> NoAction]
    /\ arg = NoValue
    /\ after = NoValue
    /\ out = NoValue
    /\ rexc = NoExc
    /\ calls = <<>>
    /\ warned = FALSE
    /\ slice_calls = <<>>
    /\ root_arg = NoValue

StoreNext ==
  \/ \E action \in Actions, rev \in BOOLEAN : Dispatch(action, rev)
  \/ \E h \in StoreHandlers, rev \in BOOLEAN : StoreSubscribe(h, rev)
  \/ \E h \in StoreHandlers : StoreUnsubscribe(h)

\* ======================================================== FlagDispatcher
\* A call on the dispatcher runs on a record d: the flag, the subscriber set,
\* the invocations so far, and the raised exception.  The subscriber set is
\* iterated in reverse when rev.
Latch(rev) ==
  [flag |-> latch_flag, subs |-> latch_subscribers,
   notified |-> [h \in DOMAIN notified |-> 0],
   replayed |-> [h \in DOMAIN replayed |-> 0], exc |-> NoExc, rev |-> rev]

\* The handlers a client subscribes.  1 only counts its invocations; 2 is a
\* one-shot listener, it unsubscribes itself when invoked; 3 subscribes
\* handler 1 when invoked.
LatchHandlers == {1, 2, 3}
Recorders == {1}
LatchRank(d, h) == IF d.rev THEN Cardinality(LatchHandlers) + 1 - h ELSE h

RECURSIVE LatchCall(_, _, _), LatchSubscribeCall(_, _), LatchNotifyFrom(_, _, _)

\* An unsubscribe that undoes one subscribe of several.
LatchUnsubscribeCounted(d, h) ==
  IF capabilities[h] > 1 THEN d ELSE [d EXCEPT !.subs = @ \ {h}]

\* EventDispatcherBase.unsubscribe
LatchUnsubscribeCall(d, h) == [d EXCEPT !.subs = @ \ {h}]

\* handler(), invoked by notify or by subscribe.
LatchCall(d, h, by) ==
  Then(IF by = "notify" THEN [d EXCEPT !.notified[h] = @ + 1]
       ELSE [d EXCEPT !.replayed[h] = @ + 1],
       LAMBDA a : CASE h = 1 -> a
                    [] h = 2 -> LatchUnsubscribeCall(a, 2)
                    [] h = 3 -> LatchSubscribeCall(a, 1))

\* FlagDispatcher.subscribe
LatchSubscribeCall(d, h) ==
  Then([d EXCEPT !.subs = @ \cup {h}],
       LAMBDA a : IF a.flag THEN LatchCall(a, h, "subscribe") ELSE a)

\* EventDispatcherBase.notify: the list comprehension walks the live set.
LatchNotifyFrom(d, used, pos) ==
  IF Cardinality(d.subs) # used THEN Raise(d, "RuntimeError")
  ELSE LET rest == {h \in d.subs : LatchRank(d, h) > pos} IN
       IF rest = {} THEN d
       ELSE LET h == CHOOSE x \in rest :
                       \A y \in rest : LatchRank(d, x) <= LatchRank(d, y)
            IN Try(LatchCall(d, h, "notify"),
                   LAMBDA a : LatchNotifyFrom(a, used, LatchRank(d, h)))

LatchNotifyCall(d) == LatchNotifyFrom(d, Cardinality(d.subs), 0)

\* A raiseFlag that notifies at every call.
LatchRaiseFlagAlways(d) == LatchNotifyCall([d EXCEPT !.flag = TRUE])

\* FlagDispatcher.raiseFlag
LatchRaiseFlag(d) ==
  IF ~d.flag THEN LatchNotifyCall([d EXCEPT !.flag = TRUE]) ELSE d

\* FlagDispatcher.reset
LatchResetCall(d) == [d EXCEPT !.flag = FALSE]

LatchReturned(d, name, h) ==
  /\ latch_flag' = d.flag
  /\ latch_subscribers' = d.subs
  /\ notified' = d.notified
  /\ replayed' = d.replayed
  /\ lop' = [name |-> name, h |-> h, was |-> latch_flag,
             had |-> h \in latch_subscribers]
  /\ lexc' = d.exc
  /\ UNCHANGED <<sigVars, redVars, storeVars>>

\* unsubscribe = d.subscribe(handler)
LatchSubscribe(h, rev) ==
  /\ capabilities[h] < MaxSubscribes
  /\ \E d \in {LatchSubscribeCall(Latch(rev), h)} :
       /\ LatchReturned(d, "subscribe", h)
       /\ capabilities' = IF Failed(d) THEN capabilities
                          ELSE [capabilities EXCEPT ![h] = @ + 1]

\* d.unsubscribe(handler)
LatchUnsubscribe(h) ==
  /\ \E d \in {LatchUnsubscribeCall(Latch(FALSE), h)} :
       LatchReturned(d, "unsubscribe", h)
  /\ UNCHANGED capabilities

\* unsubscribe(), a capability an earlier subscribe(handler) returned
LatchCapability(h) ==
  /\ capabilities[h] > 0
  /\ \E d \in {LatchUnsubscribeCall(Latch(FALSE), h)} :
       LatchReturned(d, "capability", h)
  /\ UNCHANGED capabilities

\* d.raiseFlag()
LatchRaise(rev) ==
  /\ \E d \in {LatchRaiseFlag(Latch(rev))} : LatchReturned(d, "raiseFlag", 0)
  /\ UNCHANGED capabilities

\* d.reset()
LatchReset ==
  /\ \E d \in {LatchResetCall(Latch(FALSE))} : LatchReturned(d, "reset", 0)
  /\ UNCHANGED capabilities

\* d.notify()
LatchNotify(rev) ==
  /\ \E d \in {LatchNotifyCall(Latch(rev))} : LatchReturned(d, "notify", 0)
  /\ UNCHANGED capabilities

\* FlagDispatcher()
LatchInit ==
  /\ latch_flag = FALSE
  /\ latch_subscribers = {}
  /\ capabilities = [h \in LatchHandlers |-> 0]
  /\ notified = [h \in LatchHandlers |-> 0]
  /\ replayed = [h \in LatchHandlers |-> 0]
  /\ lop = [name |-> "FlagDispatcher", h |-> 0, was |-> FALSE, had |-> FALSE]
  /\ lexc = NoExc

LatchNext ==
  \/ \E h \in LatchHandlers, rev \in BOOLEAN : LatchSubscribe(h, rev)
  \/ \E h \in LatchHandlers : LatchUnsubscribe(h)
  \/ \E h \in LatchHandlers : LatchCapability(h)
  \/ \E rev \in BOOLEAN : LatchRaise(rev)
  \/ LatchReset
  \/ \E rev \in BOOLEAN : LatchNotify(rev)

\* ====================================================== the specifications
\* One client's graph, left alone.
SigIdle == SigInit /\ factory = (3 :> 1) @@ (4 :> 2) /\ callback = (5 :> 1)

\* The signal graph under its calls.
Init == SigInit /\ RedInit /\ StoreIdle /\ LatchInit
Spec == Init /\ [][SigNext]_vars

\* A builder under its registrations, then the reducer under its calls.
InitReducer == SigIdle /\ RedInit /\ StoreIdle /\ LatchInit
SpecReducer == InitReducer /\ [][RedNext]_vars

\* A store under its calls.
InitStore == SigIdle /\ RedBuilt /\ StoreInit /\ LatchInit
SpecStore == InitStore /\ [][StoreNext]_vars

\* One client's graph under the calls of a signal's and an effect's life: the
\* effect reads signal 1 and then, by its value, signal 2 or a computed signal
\* whose factory raises.
InitLife ==
  /\ SigInit /\ factory = (3 :> 1) @@ (4 :> 6) /\ callback = (5 :> 5)
  /\ RedInit /\ StoreIdle /\ LatchInit
SpecLife == InitLife /\ [][LifeNext]_vars

\* One client's graph whose computed signal 3 and effect read signal 1 and
\* then, by its value, computed signal 4 (which reads signal 1) or signal 2.
InitDeps == SigStart({<<5, 1, 5>>}) /\ RedInit /\ StoreIdle /\ LatchInit
SpecDeps == InitDeps /\ [][SigNext]_vars

\* One client's graph whose computed signals 3 and 4 read each other, and
\* whose signal 2 is given a factory that reads them or itself.
InitGuard == SigStart({<<4, 3, 1>>}) /\ RedInit /\ StoreIdle /\ LatchInit
SpecGuard == InitGuard /\ [][GuardNext]_vars

\* A FlagDispatcher under its calls.
InitLatch == SigIdle /\ RedInit /\ StoreIdle /\ LatchInit
SpecLatch == InitLatch /\ [][LatchNext]_vars

\* ------------------------------------------------- properties of the graph
\* The nodes an evaluation of node e read, directly or through the derived
\* nodes it read.
Step(S) == S \cup UNION {deps[m] : m \in S}
ReadBy(e) == Step(Step(Step(deps[e])))

\* C1: createEffect runs the callback exactly once; a set() that changes a
\* signal the effect's latest (completed) run read re-runs the callback exactly
\* once; no other set() and no get() runs it.
C1_EffectRunsOncePerChange ==
  [][\A e \in Effects :
       /\ (op'.name = "createEffect" /\ op'.n = e) => runs'[e] = 1
       /\ (op'.name = "set" /\ effect[e] # 0 /\ ~flag[e]) =>
            runs'[e] = IF current'[op'.n] # current[op'.n] /\ op'.n \in ReadBy(e)
                       THEN 1 ELSE 0
       /\ op'.name = "get" => runs'[e] = 0]_sigVars

\* C2: set(v) on a signal whose raw value equals v raises no latch and runs no
\* factory and no callback; over consecutive set(v) calls with the same v on a
\* signal, every node's factory or callback runs at most once in total.
C2_EqualSetIsNoOp ==
  [][op'.name = "set" =>
       /\ current[op'.n] = op'.v => (flag' = flag /\ runs' = NoRuns)
       /\ \A m \in Nodes : streak'[m] <= 1]_sigVars

\* C3: a computed signal's factory runs only inside a get of that signal; a
\* get from outside runs it exactly once when the signal is dirty and not at
\* all when it is clean.
C3_FactoryRunsOncePerDirtyGet ==
  [][/\ \A c \in Computeds : runs'[c] > 0 => c \in got'
     /\ (op'.name = "get" /\ op'.n \in Computeds) =>
          runs'[op'.n] = IF flag[op'.n] THEN 1 ELSE 0]_sigVars

\* C4: a get of a computed signal during which a computed signal under
\* evaluation is read again, directly or through other computed signals,
\* raises the circular-dependency error out of that get (and so neither
\* returns a value nor exhausts the stack).
C4_CycleRaisesCircularDependency ==
  (op.name = "get" /\ op.n \in Computeds /\ selfRead)
    => exc = "DangerousSignalDependencyException"

\* A get of computed signal 3, whose factory reads computed signal 4, whose
\* factory reads 3 again.
C4_ChainCycleRaised ==
  /\ op.name = "get" /\ op.n = 3 /\ selfRead
  /\ Programs[factory[3]].r = <<4>> /\ Programs[factory[4]].r = <<3>>
  /\ runs[3] = 1 /\ runs[4] = 1
  /\ exc = "DangerousSignalDependencyException"

\* ---------------------------------------------- properties of the reducer
\* The action of the last reducer call has no case handler.
NoCase == actions_map[rop.action.type] = NoHandler
\* The handlers of the matchers that match it, in registration order.
Matching ==
  LET Hit(entry) == Matches(entry.matcher, rop.action)
  IN  SelectSeq(matchers_map, Hit)
\* hp after the handlers hs[i..] edited it one after the other.
RECURSIVE ApplyAll(_, _, _, _)
ApplyAll(hs, i, hp, action) ==
  IF i > Len(hs) THEN hp
  ELSE ApplyAll(hs, i + 1, HandlerResult(hs[i].handler, hp, action), action)
\* The tiers of the handlers the last reducer call invoked.
Tiers == {calls[i].tier : i \in 1..Len(calls)}

\* C5: after a call of a reducer from createReducer or from combineReducers
\* on a state S, whether it returned or raised, S reads as it read before the
\* call.
C5_ReducerNeverMutatesState ==
  rop.name \in {"reducer", "combined_reducer"} => after = arg

\* A combined reducer returned a state other than S, and S reads as before.
C5_CombinedReducerLeftStateAlone ==
  /\ rop.name = "combined_reducer"
  /\ rexc = NoExc
  /\ out # arg
  /\ after = arg

\* C6: a reduction of an action with no case handler, no matching matcher and
\* no default handler returns the state it was given, emits a warning and
\* raises nothing.
C6_UnhandledActionWarns ==
  (/\ rop.name = "reducer"
   /\ rop.action \in Actions
   /\ NoCase
   /\ Matching = <<>>
   /\ default_reducer = NoHandler)
    => (rexc = NoExc /\ out = arg /\ warned)

\* C7: a reduction of an action with no case handler and at least one
\* matching matcher returns the state with the matching handlers' edits
\* applied in registration order, and those edits only.
C7_MatchersApplyInOrder ==
  (/\ rop.name = "reducer"
   /\ rop.action \in Actions
   /\ NoCase
   /\ Matching # <<>>)
    => (rexc = NoExc /\ out = [hp |-> ApplyAll(Matching, 1, arg.hp, rop.action)])

\* C8: one reduction invokes handlers of at most one tier; with a case handler
\* for the type it invokes no matcher handler and no default handler; it
\* invokes the default handler only when there is no case handler and no
\* matcher matched.
C8_OneTierPerReduction ==
  (rop.name = "reducer" /\ rop.action \in Actions)
    => /\ Cardinality(Tiers) <= 1
       /\ ~NoCase => Tiers \subseteq {"case"}
       /\ "default" \in Tiers => (NoCase /\ Matching = <<>>)

\* Registrations of the form cases*, matchers*, at most one default, the case
\* types pairwise distinct.
CasesMatchersDefault(regs) ==
  \E i \in 0..Len(regs), j \in 0..Len(regs) :
    /\ i <= j
    /\ Len(regs) - j <= 1
    /\ \A k \in 1..Len(regs) :
         regs[k].kind = IF k <= i THEN "case" ELSE IF k <= j THEN "matcher"
                        ELSE "default"
    /\ \A k \in 1..i, l \in 1..i : k # l => regs[k].key # regs[l].key
Registered(kind) == \E k \in 1..Len(accepted) : accepted[k].kind = kind

\* C9: add_case fails exactly when a matcher or a default was accepted before,
\* or its type is empty or the type of an accepted case; add_matcher fails
\* exactly when a default was accepted before (so it succeeds after add_case);
\* set_default_reducer fails exactly when a default was accepted before; a
\* failed call registers nothing; and the accepted registrations always have
\* the form cases*, matchers*, at most one default, with distinct case types.
C9_BuilderPhases ==
  [][/\ \A type \in CaseTypes, handler \in Handlers :
          add_case(type, handler) =>
            /\ bexc' # NoExc <=>
                 \/ Registered("matcher") \/ Registered("default") \/ type = ""
                 \/ \E k \in 1..Len(accepted) :
                      accepted[k] = [kind |-> "case", key |-> type]
            /\ bexc' # NoExc <=> accepted' = accepted
     /\ \A matcher \in Matchers, handler \in Handlers :
          add_matcher(matcher, handler) =>
            /\ bexc' # NoExc <=> Registered("default")
            /\ bexc' # NoExc <=> accepted' = accepted
     /\ \A handler \in Handlers :
          set_default_reducer(handler) =>
            /\ bexc' # NoExc <=> Registered("default")
            /\ bexc' # NoExc <=> accepted' = accepted
     /\ CasesMatchersDefault(accepted')]_vars

\* add_case was refused on a builder that had accepted a case and a matcher.
C9_CaseRefusedAfterMatcher ==
  /\ Len(accepted) = 2
  /\ accepted[1].kind = "case" /\ accepted[2].kind = "matcher"
  /\ bop.name = "add_case" /\ bop.key \in ActionTypes
  /\ actions_map[bop.key] = NoHandler
  /\ bexc # NoExc

\* ------------------------------------------------ properties of the store
\* The state the store's reducer returns for (hp, action), NoValue if it raises.
Reduced(hp, action) ==
  LET m == reducer(Machine(<<Character(hp)>>), 1, action)
  IN  IF Failed(m) THEN NoValue ELSE Value(m.heap, m.ret)

\* C10: a dispatch(action) begun in state p returns n = reducer(p, action),
\* leaves n as the store's state and (p, n) as the published pair, and has
\* handed every subscriber the pair (p, n) exactly once and nothing else.
C10_DispatchPublishesOnce ==
  dop.name = "dispatch" =>
    /\ dexc = NoExc
    /\ dret = Reduced(before.hp, dop.action)
    /\ store_state = dret
    /\ store_event = <<before, dret>>
    /\ \A h \in subscribers : received[h] = << <<before, dret>> >>

\* ------------------------------------- properties of the combined reducer
\* The last call was a combined reducer's, and it returned.
Combined == rop.name = "combined_reducer" /\ rexc = NoExc
\* The rule of the root reducer over a state it is handed.
GameOverRule(state, action) ==
  action.type = "DAMAGE" /\ (state.enemy.hp <= 0 \/ state.player.hp <= 0)

C12_SlicesOwnTheirField ==
  rop.name = "combined_reducer" =>
    /\ \A i \in 1..Len(slice_calls) :
         /\ slice_calls[i].name \in {"player", "enemy"}
         /\ slice_calls[i].given = arg[slice_calls[i].name]
    /\ rexc = NoExc =>
         /\ [i \in 1..Len(slice_calls) |-> slice_calls[i].name]
              = <<"player", "enemy">>
         /\ root_arg = [player |-> slice_calls[1].returned,
                        enemy |-> slice_calls[2].returned,
                        game_over |-> arg.game_over]

\* Both slice reducers changed their field, each its own way.
C12_BothSlicesChanged ==
  /\ Combined
  /\ arg.player.hp # arg.enemy.hp
  /\ root_arg.player.hp = arg.player.hp - 1
  /\ root_arg.enemy.hp = arg.enemy.hp - 1
  /\ root_arg.game_over = arg.game_over

\* The handler table the reducer reads.
Table == <<actions_map, matchers_map, default_reducer>>
\* A call of add_case, add_matcher or set_default_reducer.
Registration ==
  \/ \E type \in CaseTypes, handler \in Handlers : add_case(type, handler)
  \/ \E matcher \in Matchers, handler \in Handlers : add_matcher(matcher, handler)
  \/ \E handler \in Handlers : set_default_reducer(handler)

\* C18: once createReducer has returned, every add_case, add_matcher and
\* set_default_reducer on the builder raises a configuration error, and the
\* handler table the reducer reads never changes.
C18_TableFrozenOnceBuilt ==
  [][built => /\ Registration => bexc' # NoExc
              /\ Table' = Table]_vars

\* ------------------------------------------- properties of the dispatchers
\* Every handler subscribed to the dispatcher leaves its subscriptions alone.
Plain == latch_subscribers \subseteq Recorders
\* No handler was invoked.
Silent == [h \in LatchHandlers |-> 0]
\* Each handler of the set S was invoked once, and no other handler.
Once(S) == [h \in LatchHandlers |-> IF h \in S THEN 1 ELSE 0]

\* C13: a notify (one called directly, or the one of a raiseFlag that raises
\* the flag) returns without an exception and has invoked each handler that
\* was subscribed when it was called exactly once and no other handler,
\* whatever the handlers subscribe or unsubscribe meanwhile.
C13_NotifyIsASnapshot ==
  [][(lop'.name = "notify" \/ (lop'.name = "raiseFlag" /\ ~latch_flag)) =>
       /\ lexc' = NoExc
       /\ notified' = Once(latch_subscribers)]_latchVars

\* C19: with handlers that leave the subscriptions alone, subscribe(h) makes
\* h one member of the subscriber set however often it is called, a notify
\* invokes each member exactly once and nothing else, and one unsubscribe(h)
\* or one call of a capability returned for h leaves h out of the set.
C19_SubscribersAreASet ==
  [][Plain =>
       /\ (lop'.name = "subscribe" /\ lop'.h \in Recorders) =>
            latch_subscribers' = latch_subscribers \cup {lop'.h}
       /\ lop'.name \in {"unsubscribe", "capability"} =>
            latch_subscribers' = latch_subscribers \ {lop'.h}
       /\ lop'.name = "notify" =>
            (lexc' = NoExc /\ notified' = Once(latch_subscribers))]_latchVars

\* Handler 1 was subscribed while subscribed already, and a notify invokes it
\* once; after one unsubscribe a notify would not invoke it.
C19_SecondSubscribeAddsNothing ==
  /\ lop.name = "subscribe" /\ lop.h = 1 /\ lop.had
  /\ capabilities[1] = 2
  /\ LatchNotifyCall(Latch(FALSE)).notified[1] = 1
  /\ LatchNotifyCall(LatchUnsubscribeCall(Latch(FALSE), 1)).notified[1] = 0

\* C20: with handlers that leave the subscriptions alone, raiseFlag invokes
\* every subscribed handler once when the flag was not raised and no handler
\* when it was, reset invokes no handler, and subscribe invokes the handler it
\* is given once when the flag is raised and otherwise no handler.
C20_LatchNotifiesOnRisingEdge ==
  [][(Plain /\ lop'.h \in Recorders \cup {0}) =>
       /\ lop'.name = "raiseFlag" =>
            /\ latch_flag' /\ lexc' = NoExc /\ replayed' = Silent
            /\ notified' = IF latch_flag THEN Silent ELSE Once(latch_subscribers)
       /\ lop'.name = "reset" =>
            (~latch_flag' /\ notified' = Silent /\ replayed' = Silent)
       /\ lop'.name = "subscribe" =>
            /\ latch_flag' = latch_flag /\ notified' = Silent
            /\ replayed' = IF latch_flag THEN Once({lop'.h}) ELSE Silent]_latchVars

\* raiseFlag on a raised flag with a subscribed handler invoked nothing.
C20_SecondRaiseIsSilent ==
  /\ lop.name = "raiseFlag" /\ lop.was
  /\ latch_subscribers = {1}
  /\ notified = Silent

\* ------------------------------------ properties of a node's life and end
\* C14: once defineParser(fn) was called on a signal, a set() that stores a
\* concrete value v caches fn(v), the value a following get() returns.
C14_ParserNormalisesSetValues ==
  [][(/\ op'.name = "set"
      /\ parserCallback[op'.n] # 0
      /\ ~op'.v.callable
      /\ op'.v # NoneRaw
      /\ current'[op'.n] # current[op'.n])
       => last'[op'.n] = ParserFn(op'.v.x)]_sigVars

\* C15: a get() on a disposed signal raises, whatever was called on the
\* signal or on the signals it read since its disposal.
C15_DisposedSignalNeverYields ==
  (op.name = "get" /\ op.n \in disposed) => exc # NoExc

\* C16: from a save() that returned on a factory-backed signal until the next
\* set, reset or disposal of that signal, the signal holds a concrete raw
\* value, its cache is the value save() read, a get() returns it, its factory
\* runs in no later call, and its mark-dirty callback is subscribed nowhere.
C16_SaveFreezesTheSignal ==
  \A n \in Signals :
    frozen[n] # None =>
      /\ ~current[n].callable
      /\ last[n] = frozen[n]
      /\ (op.name = "get" /\ op.n = n) => (exc = NoExc /\ ret = frozen[n])
      /\ (op.name # "save" \/ op.n # n) => runs[n] = 0
      /\ deps[n] = {}
      /\ \A d \in Nodes : <<"md", n>> \notin subs[d]

\* Signal 2 was saved while it held the factory that reads signal 1, signal 1
\* has another value by now, and a get() of signal 2 returned the saved value.
C16_SavedValueOutlivesItsSource ==
  /\ frozen[2] # None
  /\ op.name = "get" /\ op.n = 2 /\ exc = NoExc
  /\ ret = frozen[2]
  /\ last[1] # frozen[2]
  /\ 1 \notin disposed

\* C17: a disposed effect's callback runs in no call; and while an effect is
\* constructed and not disposed, a set() that changes a signal the effect's
\* latest run read runs its callback.
C17_OnlyDisposalStopsAnEffect ==
  [][\A e \in Effects :
       /\ e \in disposed' => runs'[e] = 0
       /\ (/\ e \in disposers /\ e \notin disposed
           /\ op'.name = "set"
           /\ current'[op'.n] # current[op'.n]
           /\ op'.n \notin disposed
           /\ op'.n \in ReadBy(e))
            => runs'[e] >= 1]_sigVars

\* ------------------------------------------ properties of push and pull
RECURSIVE Derivable(_, _), Fresh(_), FreshSum(_, _)
\* The factory of node n, when n holds one.
FactoryOf(n) ==
  IF n \in Computeds THEN Programs[factory[n]] ELSE Programs[current[n].x]
\* Node n is derived: a computed signal, or a signal that holds a factory.
Derived(n) == n \in Computeds \/ (n \in Signals /\ current[n].callable)

\* What node n is over the signals' current raw values: a concrete signal's
\* raw value, a factory's result over what its reads are.
Fresh(n) ==
  IF ~Derived(n) THEN current[n].x
  ELSE IF FactoryOf(n).kind = "cond"
       THEN IF Fresh(FactoryOf(n).r[1]) = 1 THEN Fresh(FactoryOf(n).r[2])
            ELSE Fresh(FactoryOf(n).r[3])
       ELSE FreshSum(FactoryOf(n).r, 1) % (MaxVal + 1)
FreshSum(r, i) == IF i > Len(r) THEN 0 ELSE Fresh(r[i]) + FreshSum(r, i + 1)

\* Node n's factory only reads, and what it reads, over the signals' current
\* values, leads back to none of the nodes in seen.
Derivable(n, seen) ==
  /\ n \notin seen
  /\ n \notin disposed
  /\ Derived(n) =>
       /\ FactoryOf(n).kind # "raise"
       /\ IF FactoryOf(n).kind = "cond"
          THEN /\ Derivable(FactoryOf(n).r[1], seen \cup {n})
               /\ IF Fresh(FactoryOf(n).r[1]) = 1
                  THEN Derivable(FactoryOf(n).r[2], seen \cup {n})
                  ELSE Derivable(FactoryOf(n).r[3], seen \cup {n})
          ELSE \A i \in 1..Len(FactoryOf(n).r) :
                 Derivable(FactoryOf(n).r[i], seen \cup {n})

\* C21: a get() from outside any evaluation, on a computed signal or on a
\* signal that holds a factory, whose factory only reads other nodes, returns
\* the factory's result over the signals' current values.
C21_PullIsNeverStale ==
  (op.name = "get" /\ Derived(op.n) /\ Derivable(op.n, {}))
    => (exc = NoExc /\ ret = Fresh(op.n))

\* The latches node n's mark-dirty callback is subscribed to.
Subscribed(n) == {d \in Nodes : <<"md", n>> \in subs[d]}

\* The body of the call that op' names, on the graph of this state.
CallOf(rev) ==
  CASE op'.name = "set" -> Setter(Graph(rev), op'.n, op'.v)
    [] op'.name = "get" -> Get(Graph(rev), op'.n)
    [] op'.name = "createEffect" -> NewEffect(Graph(rev), op'.n, callback[op'.n])
    [] OTHER -> Graph(rev)

\* C22: in every call, a node whose evaluation returned has its edge set and
\* the latches its mark-dirty callback is subscribed to equal to the nodes
\* that evaluation read; the edges and subscriptions of a node that was not
\* evaluated in the call (and is neither set nor left in evaluation by a
\* failure) are as before it; and a set() on a signal that the latest
\* evaluation of a clean node read neither directly nor through derived nodes
\* leaves the node clean and runs nothing for it.
C22_EdgesAreTheLatestReads ==
  [][\A rev \in BOOLEAN : \E g \in {CallOf(rev)} :
       Returned(g, op') =>
         /\ \A m \in g.done :
              deps'[m] = g.reads[m] /\ Subscribed(m)' = g.reads[m]
         /\ \A m \in Nodes :
              (/\ g.runs[m] = 0 /\ m \notin CollectionSet
               /\ ~(op'.name = "set" /\ op'.n = m))
                => (deps'[m] = deps[m] /\ Subscribed(m)' = Subscribed(m))
         /\ \A m \in Nodes :
              (/\ op'.name = "set" /\ op'.n # m /\ op'.n \notin ReadBy(m)
               /\ ~flag[m] /\ m \notin CollectionSet)
                => (~flag'[m] /\ runs'[m] = 0)]_sigVars

\* Computed signal 3 read signal 2 in its evaluation before signal 1 was set to
\* 1; its re-evaluation reads signal 1 and computed signal 4 and leaves the
\* latch of signal 2, and a set() on signal 2 after it leaves 3 clean.
C22_DroppedDependencyIsSilent ==
  /\ op.name = "set" /\ op.n = 1 /\ current[1] = Concrete(1)
  /\ factory[3] = 5
  /\ flag[3] /\ deps[3] = {1, 2} /\ Subscribed(3) = {1, 2}
  /\ \E g \in {Get(Graph(FALSE), 3)} :
       /\ g.exc = NoExc
       /\ g.reads[3] = {1, 4} /\ g.deps[3] = {1, 4}
       /\ <<"md", 3>> \notin g.subs[2]
       /\ \E h \in {Setter(g, 2, Concrete(MaxVal))} :
            /\ h.current[2] # current[2]
            /\ ~h.flag[3] /\ h.deps[3] = {1, 4}

\* ------------------------------------- properties of a failing evaluation
\* The factory call of a get() on the dirty factory-backed signal n, up to
\* the point where the factory returns or raises.
FactoryCall(rev, n) ==
  Try(Then(ClearDependencies(Graph(rev), n), LAMBDA a : BeginCollection(a, n)),
      LAMBDA b : Invoke(b, n, b.current[n].x))

\* C23: a get() from outside any evaluation on a dirty factory-backed signal
\* whose factory raises a SignalException returns the cache the signal had
\* before the call (or raises the unresolved-value error when it had none),
\* leaves that cache in place and leaves the signal clean.
C23_FactoryErrorKeepsTheCache ==
  [][\A rev \in BOOLEAN :
       (/\ op'.name = "get" /\ op'.n \in Signals
        /\ current[op'.n].callable /\ flag[op'.n]
        /\ Returned(Get(Graph(rev), op'.n), op')
        /\ FactoryCall(rev, op'.n).exc \in SignalExceptions)
         => /\ last'[op'.n] = last[op'.n]
            /\ ~flag'[op'.n]
            /\ IF last[op'.n] = None THEN exc' = "Exception"
               ELSE exc' = NoExc /\ ret' = last[op'.n]]_sigVars

\* C24: between calls (after a get, a set or a createEffect from outside any
\* evaluation has returned or raised) the evaluation stack and the set of the
\* nodes under evaluation are empty.
C24_NoFrameOutlivesACall == CollectionStack = <<>> /\ CollectionSet = {}

\* --------------------------------------- properties of re-entrant dispatch
\* C25: when a dispatch from outside any handler has returned, the pairs each
\* subscriber was handed during it are in dispatch order (each pair's previous
\* state is the next state of the pair before it) and the last of them has
\* the store's current state as its next state.
C25_SubscribersSeePairsInOrder ==
  (dop.name = "dispatch" /\ dexc = NoExc) =>
    \A h \in subscribers :
      /\ \A i \in 1..(Len(received[h]) - 1) :
           received[h][i][2] = received[h][i + 1][1]
      /\ received[h] # <<>> => received[h][Len(received[h])][2] = store_state
====
